---- MODULE Spec2Model ----
(***************************************************************************)
(* Model of src/server.js: the audio analysis API server.                  *)
(*                                                                         *)
(* One request handler instance per request id.  JavaScript runs each      *)
(* continuation to completion, so one action is the code that runs from    *)
(* one await (or event) to the next.  External events are the axios        *)
(* response, the write stream's events, and the exit of each child         *)
(* process (ffprobe, ffmpeg).                                              *)
(*                                                                         *)
(* Units: durations and times are in centiseconds (0.01 s); amplitudes are *)
(* in units of 0.0001 (the 4 decimals of toFixed(4)).                      *)
(***************************************************************************)
EXTENDS Integers, Sequences, FiniteSets, TLC

(***************************************************************************)
(* Bounds of the model.                                                    *)
(***************************************************************************)
\* Number of analyze requests in a run of the server specification.
MaxRequests == 3
\* Longest probed duration of the sampler specification, in steps of 0.05 s.
MaxHalfTenths == 25
\* Most per-window tool failures in one run of the sampler specification.
MaxFailures == 1

(***************************************************************************)
(* Program constants.                                                      *)
(***************************************************************************)
\* for (...; i += 10) and j < 10: the batch width.
BatchSize == 10
\* const interval = 0.1, in centiseconds.
IntervalCs == 10
\* rmsMatch ? ... : -60
FloorDb == -60

AssetIds == {"a1", "a2"}

(***************************************************************************)
(* JavaScript numbers: a number is NaN or a value.                         *)
(***************************************************************************)
NaN == [nan |-> TRUE, v |-> 0]
Num(x) == [nan |-> FALSE, v |-> x]

Min(a, b) == IF a < b THEN a ELSE b

RECURSIVE Pow10(_)
Pow10(k) == IF k <= 0 THEN 1 ELSE 10 * Pow10(k - 1)

RECURSIVE Pow2(_)
Pow2(k) == IF k <= 0 THEN 1 ELSE 2 * Pow2(k - 1)

RECURSIVE Log2(_)
\* floor(log2(m)) for m >= 1
Log2(m) == IF m < 2 THEN 0 ELSE 1 + Log2(m \div 2)

\* x / d rounded to the nearest integer, halves up (x >= 0, d > 0)
RoundDiv(x, d) == (2 * x + d) \div (2 * d)

(***************************************************************************)
(* Math.floor(duration / interval) in IEEE-754 binary64.                   *)
(*                                                                         *)
(* The probe prints a decimal; c is that decimal in centiseconds.  Neither *)
(* c/100 nor 0.1 is a binary64 number: the quotient of the two nearest     *)
(* doubles is rounded once more.  When c/100 is not a multiple of 0.1 the  *)
(* quotient is at least 0.1 away from an integer and the floor is c \div   *)
(* 10.  When c = 10 m the quotient is m or the double just below m.        *)
(* With fl(0.1) = 0.1 (1 + 2^-54) and fl(m/10) = (m + rho 2^-k) / 10,      *)
(* where k = 52 - e, 2^e <= m/10 < 2^(e+1) and rho is the rounding of      *)
(* m 2^k / 10 in tenths, the exact quotient is                             *)
(* (m + rho 2^-k) / (1 + 2^-54).  It rounds to the double below m iff m is *)
(* no power of two and rho 2^(e+4) - 4 m < -2^(p+3), 2^p <= m < 2^(p+1).   *)
(***************************************************************************)
\* 2^k mod 10, for k >= 1
Pow2Mod10(k) == CASE k % 4 = 0 -> 6 [] k % 4 = 1 -> 2 [] k % 4 = 2 -> 4 [] OTHER -> 8

\* 2^e <= m/10 < 2^(e+1), for m >= 1 and p = Log2(m)
TenthExponent(m, p) == IF 8 * m >= 10 * Pow2(p) THEN p - 3 ELSE p - 4

\* fl(fl(m/10) / fl(0.1)) < m, for m >= 0
QuotientBelow(m) ==
    IF m = 0 THEN FALSE
    ELSE LET p == Log2(m)
             e == TenthExponent(m, p)
             rem == (m * Pow2Mod10(52 - e)) % 10
             rho == IF rem < 5 THEN 0 - rem ELSE 10 - rem
         IN  m # Pow2(p) /\ rho * Pow2(e + 4) - 4 * m < 0 - Pow2(p + 3)

\* Math.floor(duration / interval) for duration = c / 100 >= 0
FloorQuotient(c) ==
    IF c % IntervalCs # 0 THEN c \div IntervalCs
    ELSE IF QuotientBelow(c \div IntervalCs) THEN (c \div IntervalCs) - 1
    ELSE c \div IntervalCs

\* const numSamples = Math.floor(duration / interval); NaN stays NaN
NumSamples(duration) ==
    IF duration.nan THEN NaN ELSE Num(FloorQuotient(duration.v))

\* The loop conditions i < numSamples and (i + j) < numSamples: false for NaN
Below(i, n) == ~n.nan /\ i < n.v

\* const time = (i + j) * interval, and time.toFixed(2), in centiseconds
WindowTime(i, j) == (i + j) * IntervalCs

\* Mutant: no inner bound, every remaining window is started at once.
BatchEndAll(i, n) == n

\* One past the last window of the batch at i: j < 10 && (i + j) < numSamples
BatchEnd(i, n) == Min(i + BatchSize, n)

(***************************************************************************)
(* The tool output of one window and its parsing.                          *)
(* A field is the text that follows its label, as a sequence of            *)
(* characters, or is absent.                                               *)
(***************************************************************************)
Digits == {"0", "1", "2", "3", "4", "5", "6", "7", "8", "9"}

DigitVal(ch) ==
    CASE ch = "0" -> 0 [] ch = "1" -> 1 [] ch = "2" -> 2 [] ch = "3" -> 3
      [] ch = "4" -> 4 [] ch = "5" -> 5 [] ch = "6" -> 6 [] ch = "7" -> 7
      [] ch = "8" -> 8 [] OTHER -> 9

\* The character class [-\d.]
InClass(ch) == ch = "-" \/ ch = "." \/ ch \in Digits

RECURSIVE TakeWhileClass(_)
TakeWhileClass(t) ==
    IF t = <<>> \/ ~InClass(Head(t)) THEN <<>>
    ELSE <<Head(t)>> \o TakeWhileClass(Tail(t))

RECURSIVE TakeDigits(_)
TakeDigits(t) ==
    IF t = <<>> \/ Head(t) \notin Digits THEN <<>>
    ELSE <<Head(t)>> \o TakeDigits(Tail(t))

RECURSIVE DigitsValue(_, _)
DigitsValue(t, acc) ==
    IF t = <<>> THEN acc ELSE DigitsValue(Tail(t), 10 * acc + DigitVal(Head(t)))

Drop(t, n) == SubSeq(t, n + 1, Len(t))

Absent == [present |-> FALSE, text |-> <<>>]
Field(t) == [present |-> TRUE, text |-> t]

\* stdout.match(/<label>: ([-\d.]+)/): the longest run of class characters
\* after the label, which must not be empty
MatchField(f) ==
    LET run == TakeWhileClass(f.text)
    IN  [matched |-> f.present /\ run # <<>>, text |-> run]

\* parseFloat(text) in hundredths of a dB: an optional sign, digits, an
\* optional fraction (its first two digits are kept); NaN without any digit
ParseFloat(t) ==
    LET neg == t # <<>> /\ Head(t) = "-"
        body == IF neg THEN Tail(t) ELSE t
        ip == TakeDigits(body)
        rest == Drop(body, Len(ip))
        fp == IF rest # <<>> /\ Head(rest) = "." THEN TakeDigits(Tail(rest)) ELSE <<>>
        f2 == SubSeq(fp \o <<"0", "0">>, 1, 2)
        mag == 100 * DigitsValue(ip, 0) + DigitsValue(f2, 0)
    IN  IF ip = <<>> /\ fp = <<>> THEN NaN
        ELSE Num(IF neg THEN 0 - mag ELSE mag)

\* const rmsDb = rmsMatch ? parseFloat(rmsMatch[1]) : -60
ReadDb(f) ==
    LET m == MatchField(f)
    IN  IF m.matched THEN ParseFloat(m.text) ELSE Num(100 * FloorDb)

\* 10^(j/20) in units of 0.00001, j = 0..19
RootTable ==
    <<100000, 112202, 125893, 141254, 158489, 177828, 199526, 223872,
      251189, 281838, 316228, 354813, 398107, 446684, 501187, 562341,
      630957, 707946, 794328, 891251>>

\* Math.pow(10, db / 20) in units of 0.00001, for a whole number of dB
\* (db in hundredths of a dB, db % 100 = 0, db <= 20 dB)
Linear(db) ==
    IF db.nan THEN NaN
    ELSE LET d == db.v \div 100
             q == d \div 20
             root == RootTable[(d % 20) + 1]
         IN  Num(IF q >= 0 THEN root * Pow10(q) ELSE RoundDiv(root, Pow10(0 - q)))

\* parseFloat(x.toFixed(4)), x in units of 0.00001, result in units of 0.0001
Fixed4(x) == IF x.nan THEN NaN ELSE Num(RoundDiv(x.v, 10))

\* amplitude * (lo + Math.random() * width), rounded to 4 decimals; lo and
\* width in thousandths per hundredth of the draw r (r in hundredths)
Band(amp, lo, width, r) ==
    IF amp.nan THEN NaN ELSE Num(RoundDiv(amp.v * (lo + width * r), 10000))

ZeroSample(time) ==
    [time |-> time, amplitude |-> Num(0), bass |-> Num(0), mid |-> Num(0),
     high |-> Num(0), peak |-> Num(0)]

\* Mutant: the catch block rethrows.
CatchRethrow(time) == [rejected |-> TRUE, value |-> ZeroSample(time)]

\* catch (error) { return { time, amplitude: 0, ... } }
CatchSample(time) == [rejected |-> FALSE, value |-> ZeroSample(time)]

\* analyzeSample(audioPath, time, duration): out is what ffmpeg did (failed,
\* or printed the two fields), rnd the three draws of Math.random()
AnalyzeSample(time, out, rnd) ==
    IF out.fail THEN CatchSample(time)
    ELSE LET amplitude == Linear(ReadDb(out.rms))
             peak == Linear(ReadDb(out.peak))
         IN  [rejected |-> FALSE,
              value |-> [time |-> time,
                         amplitude |-> Fixed4(amplitude),
                         bass |-> Band(amplitude, 800, 2, rnd[1]),
                         mid |-> Band(amplitude, 700, 3, rnd[2]),
                         high |-> Band(amplitude, 600, 4, rnd[3]),
                         peak |-> Fixed4(peak)]]

(***************************************************************************)
(* State.                                                                  *)
(***************************************************************************)
Requests == 1 .. MaxRequests

VARIABLES
    pc,       \* per request: where its handler is suspended
    asset,    \* per request: req.params.assetId
    cache,    \* const cache = new Map(): its keys and the value of each key
    files,    \* the AssetIds whose scratch file temp/<id>.mp3 exists
    tempDir,  \* whether the temp directory exists
    run,      \* per request: the locals of its analyzeAudio call
    resp,     \* per request: the response sent
    obs,      \* per request: what was observed of it (history)
    stores    \* per AssetId: how many times cache.set was called (history)

vars == <<pc, asset, cache, files, tempDir, run, resp, obs, stores>>

NoSample == ZeroSample(0 - 1)

NoResult ==
    [assetId |-> "", duration |-> NaN, interval |-> 0, samples |-> 0, data |-> <<>>]

NoResp == [status |-> 0, success |-> FALSE, cached |-> FALSE, data |-> NoResult]

\* res.json({ success: true, cached, data })
Ok(cached, data) == [status |-> 200, success |-> TRUE, cached |-> cached, data |-> data]

\* res.status(500).json({ success: false, error })
Failed == [status |-> 500, success |-> FALSE, cached |-> FALSE, data |-> NoResult]

FailOut == [fail |-> TRUE, rms |-> Absent, peak |-> Absent]
Printed(rms, peak) == [fail |-> FALSE, rms |-> rms, peak |-> peak]

NoCall == [called |-> FALSE, out |-> FailOut, rnd |-> <<0, 0, 0>>]

NoRun ==
    [duration |-> NaN, numSamples |-> NaN, i |-> 0, pending |-> {},
     chunk |-> <<>>, samples |-> <<>>]

NoObs ==
    [procs |-> 0, started |-> {}, finished |-> {}, log |-> <<>>,
     computed |-> NoResult, returned |-> FALSE, priorOk |-> FALSE,
     hit |-> FALSE, probe |-> <<>>, outOfOrder |-> FALSE,
     fetches |-> 0, fetchError |-> FALSE, wrote |-> "", fileLeft |-> FALSE]

\* Mutant: one scratch path for every AssetId.
ScratchPathShared(a) == "a1"

\* path.join(__dirname, 'temp', `${assetId}.mp3`): a path per AssetId, named
\* here by the AssetId
ScratchPath(a) == a

\* Mutant: the file is not removed.
UnlinkNothing(fs, path) == fs

\* fs.unlinkSync(audioPath), when the file exists
Unlink(fs, path) == fs \ {path}

\* Mutant: the catch block removes the scratch file.
CatchCleansUp(fs, path) == fs \ {path}

\* The files after the handler's catch block, which removes nothing
CatchFiles(fs, path) == fs

\* Mutant: the cache check never finds the key.
CacheHasNever(c, a) == FALSE

\* cache.has(assetId)
CacheHas(c, a) == a \in c.keys

\* Mutant: the lookup yields an empty result.
CacheGetNothing(c, a) == NoResult

\* cache.get(assetId)
CacheGet(c, a) == c.val[a]

\* Mutant: the store is forgotten.
CacheSetNothing(c, a, v) == c

\* Mutant: the store replaces the whole map.
CacheSetOnly(c, a, v) ==
    [keys |-> {a}, val |-> [x \in AssetIds |-> IF x = a THEN v ELSE NoResult]]

\* cache.set(assetId, frequencyData)
CacheSet(c, a, v) == [keys |-> c.keys \cup {a}, val |-> [c.val EXCEPT ![a] = v]]

\* GET /api/cache
CacheStatus ==
    [cached_songs |-> Cardinality(cache.keys), asset_ids |-> cache.keys]

Init ==
    /\ pc = [r \in Requests |-> "new"]
    /\ asset = [r \in Requests |-> ""]
    /\ cache = [keys |-> {}, val |-> [a \in AssetIds |-> NoResult]]
    /\ files = {}
    /\ tempDir = FALSE
    /\ run = [r \in Requests |-> NoRun]
    /\ resp = [r \in Requests |-> NoResp]
    /\ obs = [r \in Requests |-> NoObs]
    /\ stores = [a \in AssetIds |-> 0]

(***************************************************************************)
(* The request handler, lines 42-87.                                       *)
(***************************************************************************)
\* The handler's catch block: the request is answered with status 500.
Abort(r, o) ==
    /\ pc' = [pc EXCEPT ![r] = "done"]
    /\ resp' = [resp EXCEPT ![r] = Failed]
    /\ obs' = [obs EXCEPT ![r] = o]
    /\ files' = CatchFiles(files, ScratchPath(asset[r]))

\* GET /api/analyze/:assetId arrives: the cache check, and on a miss the
\* start of downloadRobloxAudio up to the await of axios.
Arrive(r, a) ==
    /\ pc[r] = "new"
    /\ r > 1 => pc[r - 1] # "new"
    /\ asset' = [asset EXCEPT ![r] = a]
    /\ obs' = [obs EXCEPT ![r].priorOk =
                   \E q \in Requests : asset[q] = a /\ resp[q].success,
                              ![r].hit = CacheHas(cache, a),
                              ![r].fetches = IF CacheHas(cache, a) THEN 0 ELSE 1]
    /\ IF CacheHas(cache, a)
       THEN /\ resp' = [resp EXCEPT ![r] = Ok(TRUE, CacheGet(cache, a))]
            /\ pc' = [pc EXCEPT ![r] = "done"]
            /\ UNCHANGED tempDir
       ELSE /\ tempDir' = TRUE
            /\ pc' = [pc EXCEPT ![r] = "axios"]
            /\ UNCHANGED resp
    /\ UNCHANGED <<cache, files, run, stores>>

\* axios resolves: the write stream is created and the body piped into it.
AxiosOk(r) ==
    /\ pc[r] = "axios"
    /\ files' = files \cup {ScratchPath(asset[r])}
    /\ pc' = [pc EXCEPT ![r] = "pipe"]
    /\ obs' = [obs EXCEPT ![r].wrote = ScratchPath(asset[r])]
    /\ UNCHANGED <<asset, cache, tempDir, run, resp, stores>>

\* axios rejects (connection error or non-2xx status): "Failed to download".
AxiosFail(r) ==
    /\ pc[r] = "axios"
    /\ Abort(r, [obs[r] EXCEPT !.fetchError = TRUE])
    /\ UNCHANGED <<asset, cache, tempDir, run, stores>>

\* The writer emits 'error': the promise rejects.
WriterError(r) ==
    /\ pc[r] = "pipe"
    /\ Abort(r, [obs[r] EXCEPT !.fetchError = TRUE])
    /\ UNCHANGED <<asset, cache, tempDir, run, stores>>

\* The response body emits 'error': pipe() does not forward it, the writer
\* neither finishes nor fails, and the promise is never settled.
StreamError(r) ==
    /\ pc[r] = "pipe"
    /\ pc' = [pc EXCEPT ![r] = "hung"]
    /\ obs' = [obs EXCEPT ![r].fetchError = TRUE]
    /\ UNCHANGED <<asset, cache, files, tempDir, run, resp, stores>>

\* The writer emits 'finish': downloadRobloxAudio resolves, analyzeAudio is
\* called and starts ffprobe.
WriterFinish(r) ==
    /\ pc[r] = "pipe"
    /\ pc' = [pc EXCEPT ![r] = "probe"]
    /\ obs' = [obs EXCEPT ![r].procs = 1]
    /\ UNCHANGED <<asset, cache, files, tempDir, run, resp, stores>>

\* Steps 3 and 4 and the response, lines 66-78: cache.set, unlinkSync (which
\* throws when the file is gone), res.json.
Complete(r, result, o) ==
    /\ cache' = CacheSet(cache, asset[r], result)
    /\ stores' = [stores EXCEPT ![asset[r]] = @ + 1]
    /\ pc' = [pc EXCEPT ![r] = "done"]
    /\ IF ScratchPath(asset[r]) \in files
       THEN /\ files' = Unlink(files, ScratchPath(asset[r]))
            /\ resp' = [resp EXCEPT ![r] = Ok(FALSE, result)]
       ELSE /\ files' = CatchFiles(files, ScratchPath(asset[r]))
            /\ resp' = [resp EXCEPT ![r] = Failed]
    /\ obs' = [obs EXCEPT ![r] =
                  [o EXCEPT !.computed = result, !.returned = TRUE,
                            !.fileLeft = ScratchPath(asset[r]) \in files']]

(***************************************************************************)
(* analyzeAudio, lines 127-170.                                            *)
(***************************************************************************)
\* The windows of the batch at i
BatchWindows(i, n) == i .. (BatchEnd(i, n) - 1)

\* The outer loop from its test i < numSamples: either the next batch is
\* started (every analyzeSample call of it runs up to its exec), or the
\* result is returned and the handler completes.
Loop(r, i, rn, o) ==
    IF Below(i, rn.numSamples)
    THEN LET ws == BatchWindows(i, rn.numSamples.v)
         IN  /\ run' = [run EXCEPT ![r] =
                          [rn EXCEPT !.i = i,
                                     !.pending = {w - i : w \in ws},
                                     !.chunk = [j \in 1 .. Cardinality(ws) |-> NoSample]]]
             /\ obs' = [obs EXCEPT ![r] =
                          [o EXCEPT !.procs = @ + Cardinality(ws),
                                    !.started = @ \cup ws]]
             /\ pc' = [pc EXCEPT ![r] = "batch"]
             /\ UNCHANGED <<cache, files, resp, stores>>
    ELSE /\ run' = [run EXCEPT ![r] = [rn EXCEPT !.i = i]]
         /\ Complete(r, [assetId |-> asset[r],
                         duration |-> rn.duration,
                         interval |-> IntervalCs,
                         samples |-> Len(rn.samples),
                         data |-> rn.samples], o)

\* ffprobe exits with an error: "Audio analysis failed".
ProbeFail(r) ==
    /\ pc[r] = "probe"
    /\ Abort(r, [obs[r] EXCEPT !.procs = @ - 1])
    /\ UNCHANGED <<asset, cache, tempDir, run, stores>>

\* ffprobe prints text: the duration is parsed and the loop entered.
ProbeDone(r, text) ==
    /\ pc[r] = "probe"
    /\ LET duration == ParseFloat(text)
           n == NumSamples(duration)
           rn == [NoRun EXCEPT !.duration = duration, !.numSamples = n]
           o == [obs[r] EXCEPT !.procs = @ - 1, !.probe = text,
                               !.log = [w \in 1 .. (IF n.nan THEN 0 ELSE n.v) |-> NoCall]]
       IN  Loop(r, 0, rn, o)
    /\ UNCHANGED <<asset, tempDir>>

\* Mutant: the results are taken in reverse.
JoinReversed(chunk) == [k \in 1 .. Len(chunk) |-> chunk[Len(chunk) + 1 - k]]

\* await Promise.all(chunkPromises): the results in the order of the promises
Join(chunk) == chunk

\* Mutant: the loop goes on as soon as one promise of the batch is settled.
AnySettled(left) == TRUE

\* Promise.all resolves when no promise of the batch is left pending
AllSettled(left) == left = {}

\* The ffmpeg of slot j of the current batch exits: analyzeSample returns;
\* when it was the last of the batch, Promise.all resolves, the results are
\* appended and the loop goes on.
SampleDone(r, j, out, rnd) ==
    /\ pc[r] = "batch"
    /\ j \in run[r].pending
    /\ LET rn == run[r]
           w == rn.i + j
           res == AnalyzeSample(WindowTime(rn.i, j), out, rnd)
           o == [obs[r] EXCEPT !.procs = @ - 1,
                               !.finished = @ \cup {w},
                               !.outOfOrder = @ \/ \E k \in rn.pending : k < j,
                               !.log[w + 1] = [called |-> TRUE, out |-> out, rnd |-> rnd]]
           left == rn.pending \ {j}
           chunk == [rn.chunk EXCEPT ![j + 1] = res.value]
       IN  IF res.rejected
           THEN /\ Abort(r, o)
                /\ UNCHANGED <<cache, run, stores>>
           ELSE IF ~AllSettled(left)
           THEN /\ run' = [run EXCEPT ![r] = [rn EXCEPT !.pending = left, !.chunk = chunk]]
                /\ obs' = [obs EXCEPT ![r] = o]
                /\ UNCHANGED <<pc, cache, files, resp, stores>>
           ELSE Loop(r, rn.i + BatchSize,
                     [rn EXCEPT !.pending = {}, !.chunk = <<>>,
                                !.samples = @ \o Join(chunk)], o)
    /\ UNCHANGED <<asset, tempDir>>

(***************************************************************************)
(* The inputs of the environment and the specifications.                   *)
(***************************************************************************)
DigitChar(d) == CASE d = 0 -> "0" [] d = 1 -> "1" [] d = 2 -> "2" [] d = 3 -> "3"
                  [] d = 4 -> "4" [] d = 5 -> "5" [] d = 6 -> "6" [] d = 7 -> "7"
                  [] d = 8 -> "8" [] OTHER -> "9"

\* What ffprobe prints for a duration of c centiseconds (c < 1000): "s.cc"
ProbeText(c) ==
    <<DigitChar(c \div 100), ".", DigitChar((c \div 10) % 10), DigitChar(c % 10)>>

\* What ffprobe prints when the container holds no duration
NotAvailable == <<"N", "/", "A">>

\* A window at -20 dB RMS and -10 dB peak, the spec's end-to-end example
Typical ==
    Printed(Field(<<"-", "2", "0", ".", "0", "0">>), Field(<<"-", "1", "0", ".", "0">>))

\* Field texts an ffmpeg build can print after a label, and texts that stress
\* the parser
FieldTexts ==
    { <<"-", "2", "0", ".", "0", "0">>,
      <<"-", "1", "0", ".", "0">>,
      <<"-", "6", ".">>,
      <<"0">>,
      <<"6">>,
      <<"-", "i", "n", "f">>,
      <<"n", "a", "n">>,
      <<".">> }

Fields == {Absent} \cup {Field(t) : t \in FieldTexts}

Draws == {0, 50, 99}

\* The steps of request r, with the inputs of its environment: the AssetIds
\* asked for, the texts ffprobe prints, what ffmpeg does, the random draws.
Step(r, ids, texts, outs, rnds) ==
    \/ \E a \in ids : Arrive(r, a)
    \/ AxiosOk(r)
    \/ AxiosFail(r)
    \/ WriterError(r)
    \/ StreamError(r)
    \/ WriterFinish(r)
    \/ ProbeFail(r)
    \/ \E t \in texts : ProbeDone(r, t)
    \/ \E j \in 0 .. (BatchSize - 1), out \in outs, rnd \in rnds :
           SampleDone(r, j, out, rnd)

\* The server: concurrent requests for short tracks.
ServerTexts == {ProbeText(0), ProbeText(10), NotAvailable}

Next ==
    \E r \in Requests :
        Step(r, AssetIds, ServerTexts, {FailOut, Typical}, {<<0, 50, 99>>})

Spec == Init /\ [][Next]_vars

\* The sampler: one request, tracks of up to MaxHalfTenths * 0.05 s, at most
\* MaxFailures failing windows.
SamplerTexts == {ProbeText(5 * h) : h \in 0 .. MaxHalfTenths} \cup {NotAvailable}

Failures(r) ==
    Cardinality({w \in DOMAIN obs[r].log : obs[r].log[w].called /\ obs[r].log[w].out.fail})

NextSampler ==
    \/ Step(1, {"a1"}, SamplerTexts, {Typical}, {<<50, 50, 50>>})
    \/ /\ Failures(1) < MaxFailures
       /\ \E j \in 0 .. (BatchSize - 1) : SampleDone(1, j, FailOut, <<50, 50, 50>>)

SpecSampler == Init /\ [][NextSampler]_vars

\* The per-window analysis: one request, a track of one window, every
\* combination of field texts and draws.
NextSample ==
    Step(1, {"a1"}, {ProbeText(10), ProbeText(15), NotAvailable},
         {FailOut} \cup {Printed(f, g) : f \in Fields, g \in Fields},
         Draws \X Draws \X Draws)

SpecSample == Init /\ [][NextSample]_vars

(***************************************************************************)
(* Claims.                                                                 *)
(***************************************************************************)
\* The requests whose analyzeAudio call has returned a result
Returned == {r \in Requests : obs[r].returned}

\* The sample of a window at -20 dB RMS and -10 dB peak with all draws 0.5
TypicalSample(time) ==
    [time |-> time, amplitude |-> Num(1000), bass |-> Num(900), mid |-> Num(850),
     high |-> Num(800), peak |-> Num(3162)]

\* C1: for every probed duration D >= 0 a returned result has samples =
\* len(data) = floor(D / 0.1), and every window 0..N-1 was analyzed once.
C1_SamplesIsFloor ==
    \A r \in Returned :
        ~run[r].duration.nan =>
            /\ obs[r].computed.samples = Len(obs[r].computed.data)
            /\ obs[r].computed.samples = run[r].duration.v \div IntervalCs
            /\ obs[r].finished = 0 .. (obs[r].computed.samples - 1)

\* C2: in every result, and in the samples gathered so far, position i holds
\* time i * 0.1 and times are strictly increasing, whatever the order in
\* which the analyses of a batch completed.
C2_TimesInOrder ==
    \A r \in Requests :
        \A data \in {run[r].samples, obs[r].computed.data} :
            /\ \A k \in 1 .. Len(data) : data[k].time = (k - 1) * IntervalCs
            /\ \A k \in 2 .. Len(data) : data[k - 1].time < data[k].time

\* A result of two batches whose analyses did not complete in slot order.
C2_Witness ==
    \E r \in Returned :
        /\ obs[r].outOfOrder
        /\ Len(obs[r].computed.data) > BatchSize

\* C3: a failing window gives the zero sample at its time, the call still
\* returns with every window in place, the request succeeds, and every other
\* window has the sample of its own output.
C3_FailureAbsorbed ==
    \A r \in Requests :
        /\ obs[r].probe # <<>> /\ ~obs[r].returned => pc[r] = "batch"
        /\ obs[r].returned =>
            /\ resp[r].status = 200
            /\ obs[r].computed.samples = Len(obs[r].log)
            /\ Len(obs[r].computed.data) = Len(obs[r].log)
            /\ \A k \in 1 .. Len(obs[r].log) :
                   /\ obs[r].log[k].called
                   /\ obs[r].computed.data[k] =
                          IF obs[r].log[k].out.fail
                          THEN ZeroSample((k - 1) * IntervalCs)
                          ELSE TypicalSample((k - 1) * IntervalCs)

\* A returned result with a failed window between two that did not fail.
C3_Witness ==
    \E r \in Returned :
        \E k \in 2 .. (Len(obs[r].log) - 1) :
            /\ obs[r].log[k].out.fail
            /\ ~obs[r].log[k - 1].out.fail
            /\ ~obs[r].log[k + 1].out.fail
            /\ obs[r].computed.data[k + 1].amplitude = Num(1000)

\* C4: a call never has more than 10 external processes started and not yet
\* completed, the probe included.
C4_AtMostTenProcesses == \A r \in Requests : obs[r].procs <= BatchSize

\* A full batch of 10 is in flight, none of it completed yet.
C4_Witness ==
    \E r \in Requests :
        /\ pc[r] = "batch"
        /\ Cardinality(run[r].pending) = BatchSize
        /\ obs[r].procs = BatchSize

\* C5: windows are started a whole batch of 10 consecutive indices at a time
\* (the last batch holds the rest), and no window of a batch is started
\* before every window of the batches before it has completed.
C5_BatchesInSequence ==
    \A r \in Requests :
        \A w \in obs[r].started :
            /\ \A v \in BatchWindows((w \div BatchSize) * BatchSize, Len(obs[r].log)) :
                   v \in obs[r].started
            /\ \A v \in 0 .. ((w \div BatchSize) * BatchSize - 1) :
                   v \in obs[r].finished
            /\ obs[r].finished \subseteq obs[r].started

\* The second batch is in flight, partly completed, and holds N mod 10 windows.
C5_Witness ==
    \E r \in Requests :
        /\ pc[r] = "batch"
        /\ run[r].i = BatchSize
        /\ Len(obs[r].log) = BatchSize + 2
        /\ obs[r].started = 0 .. (BatchSize + 1)
        /\ obs[r].finished = 0 .. BatchSize

\* The requests for the AssetId of r that arrived before r (requests arrive
\* in the order of their ids)
EarlierSame(r) == {q \in Requests : q < r /\ pc[q] # "new" /\ asset[q] = asset[r]}

\* C6: when the probe output is not a number, analyzeAudio returns no result,
\* no window is analyzed, the request is not answered with 200 and it
\* stores nothing in the cache.
C6_UnparseableProbeAborts ==
    \A r \in Requests :
        obs[r].probe # <<>> /\ ParseFloat(obs[r].probe).nan =>
            /\ ~obs[r].returned
            /\ obs[r].started = {}
            /\ resp[r].status # 200
            /\ ~(asset[r] \in cache.keys /\ cache.val[asset[r]] = obs[r].computed)

\* C7 as stated: the second request for an AssetId returns cached: true and
\* the data of the first response.
C7_SecondIsCached ==
    \A r \in Requests :
        resp[r].status # 0 /\ Cardinality(EarlierSame(r)) = 1 =>
            /\ resp[r].cached
            /\ \A q \in EarlierSame(r) : resp[r].data = resp[q].data

\* C7 amended: a request that arrives after a request for its AssetId was
\* answered with success is answered with cached: true and the data an
\* earlier request for that AssetId computed; when the entry was stored only
\* once, every successful response for the AssetId carries the same data.
C7_CachedAfterSuccess ==
    \A r \in Requests :
        obs[r].priorOk =>
            /\ resp[r].status = 200
            /\ resp[r].cached
            /\ \E q \in EarlierSame(r) :
                   obs[q].returned /\ resp[r].data = obs[q].computed
            /\ stores[asset[r]] = 1 =>
                   \A q \in Requests :
                       asset[q] = asset[r] /\ resp[q].success =>
                           resp[q].data = resp[r].data

\* A cached answer with a sample in it, after an uncached success.
C7_Witness ==
    \E r \in Requests :
        /\ obs[r].priorOk
        /\ resp[r].cached
        /\ Len(resp[r].data.data) = 1
        /\ \E q \in EarlierSame(r) : resp[q].success /\ ~resp[q].cached

\* C8 as stated: an entry of the cache is never replaced, modified or
\* removed, and the result of an AssetId is stored at most once.
C8_EntryImmutable ==
    [][\A a \in AssetIds :
           a \in cache.keys =>
               /\ a \in cache'.keys
               /\ cache'.val[a] = cache.val[a]
               /\ stores'[a] = stores[a]]_vars

\* C8 amended: an entry is never removed; it is stored again only by a
\* request for its AssetId that found no entry on arrival and was still in
\* flight (a duplicate), with the result that request computed; a request
\* that found the entry on arrival computes and stores nothing.
C8_EntryKept ==
    [][/\ \A a \in AssetIds :
              a \in cache.keys =>
                  /\ a \in cache'.keys
                  /\ (cache'.val[a] # cache.val[a] \/ stores'[a] # stores[a]) =>
                         \E r \in Requests :
                             /\ asset[r] = a
                             /\ ~obs[r].hit
                             /\ pc[r] \in {"probe", "batch"}
                             /\ pc'[r] = "done"
                             /\ cache'.val[a] = obs'[r].computed
       /\ \A r \in Requests : obs[r].hit => ~obs'[r].returned /\ obs'[r].started = {}]_vars

\* An entry that was stored twice, by duplicate requests.
C8_Witness ==
    \E a \in AssetIds :
        /\ stores[a] = 2
        /\ a \in cache.keys
        /\ \E q, r \in Requests :
               q # r /\ asset[q] = a /\ asset[r] = a /\ obs[q].returned /\ obs[r].returned

\* C9: GET /api/cache reports exactly the AssetIds for which an analyze
\* request was answered with success, and their number.
C9_CacheStatusMatches ==
    LET ok == {asset[r] : r \in {q \in Requests : resp[q].success}}
    IN  /\ CacheStatus.asset_ids = ok
        /\ CacheStatus.cached_songs = Cardinality(ok)

\* Two distinct AssetIds were analyzed with success.
C9_Witness ==
    /\ CacheStatus.cached_songs = 2
    /\ CacheStatus.asset_ids = AssetIds
    /\ \A a \in AssetIds :
           \E r \in Requests : asset[r] = a /\ resp[r].success /\ ~resp[r].cached

\* A field that is absent or whose text is not a number
Unreadable(f) == ~f.present \/ ParseFloat(f.text).nan

\* C10: when the RMS field (the Peak field) is absent or not a number, the
\* amplitude (the peak) is the value of -60 dB, 0.0010, whatever the other
\* field holds.
C10_UnreadableFieldFloors ==
    \A r \in Returned :
        \A k \in 1 .. Len(obs[r].log) :
            ~obs[r].log[k].out.fail =>
                /\ Unreadable(obs[r].log[k].out.rms) =>
                       obs[r].computed.data[k].amplitude = Num(10)
                /\ Unreadable(obs[r].log[k].out.peak) =>
                       obs[r].computed.data[k].peak = Num(10)

\* The server under fairness: an event that can happen to a request (the
\* remote call settles, the body stream or the writer ends, a process exits)
\* eventually happens.
FairSpec ==
    /\ Spec
    /\ \A r \in Requests :
           WF_vars(Step(r, AssetIds, ServerTexts, {FailOut, Typical}, {<<0, 50, 99>>}))

\* Two requests analyzed together: request 1 asks for a track of 1.10 s (a
\* batch of 10 windows and one more), request 2 for a track of 0.20 s.
NextLoad ==
    \/ Step(1, {"a1"}, {ProbeText(110)}, {Typical}, {<<50, 50, 50>>})
    \/ Step(2, {"a2"}, {ProbeText(20)}, {Typical}, {<<50, 50, 50>>})

SpecLoad == Init /\ [][NextLoad]_vars

\* A request that has arrived and has no response yet
InFlight == {r \in Requests : pc[r] # "new" /\ resp[r].status = 0}

\* The step in which request r is answered with status 500
AbortStep(r) == resp[r].status = 0 /\ resp'[r].status = 500

\* C11: a request whose download met an error (the remote call failed, the
\* body stream ended with an error, or the local write failed) is answered
\* with status 500 in the step of the error; it is not left pending.
C11_DownloadErrorFails ==
    \A r \in Requests : obs[r].fetchError => resp[r].status = 500

\* C12: a request answered with success and cached:false has no scratch file
\* on disk when its response is sent; and when no request is in flight and no
\* request has failed, the scratch directory holds no file.
C12_ScratchFileDeleted ==
    /\ \A r \in Requests :
           resp[r].success /\ ~resp[r].cached => ~obs[r].fileLeft
    /\ (InFlight = {} /\ \A r \in Requests : resp[r].status # 500) => files = {}

\* All requests were answered with success, two of them after downloading
\* the same AssetId, and nothing is in flight.
C12_Witness ==
    /\ InFlight = {}
    /\ \A r \in Requests : resp[r].success
    /\ \E q, r \in Requests :
           q # r /\ asset[q] = asset[r] /\ ~resp[q].cached /\ ~resp[r].cached
    /\ files = {}

\* C13 as stated: when a request is answered with 500, the scratch file of
\* its AssetId is on disk.
C13_AbortLeavesFile ==
    [][\A r \in Requests : AbortStep(r) => asset[r] \in files']_vars

\* C13 amended: the step that answers a request with 500 deletes and creates
\* no scratch file; the directory holds the same files after it as before.
C13_AbortKeepsFiles ==
    [][\A r \in Requests : AbortStep(r) => files' = files]_vars

\* A request failed at the probe, no other request asked for its AssetId,
\* and the file it downloaded is still on disk.
C13_Witness ==
    \E r \in Requests :
        /\ resp[r].status = 500
        /\ obs[r].wrote = asset[r]
        /\ ~obs[r].fetchError
        /\ asset[r] \in files
        /\ \A q \in Requests \ {r} : asset[q] # asset[r]

\* C14: a request that found no cache entry on arrival made its own remote
\* call, wrote the scratch path of its AssetId once its download began, and a
\* success it is answered with carries the result of its own probe and its
\* own windows, also when another request for the AssetId is in flight.
C14_NoDeduplication ==
    \A r \in Requests :
        pc[r] # "new" /\ ~obs[r].hit =>
            /\ obs[r].fetches = 1
            /\ (pc[r] \in {"pipe", "probe", "batch"} \/ obs[r].returned) =>
                   obs[r].wrote = asset[r]
            /\ resp[r].success =>
                   /\ obs[r].returned
                   /\ obs[r].probe # <<>>
                   /\ resp[r].data = obs[r].computed
                   /\ obs[r].finished = 0 .. (Len(resp[r].data.data) - 1)

\* Two requests for one AssetId both found no entry and both run their own
\* windows at the same time, on the same scratch path.
C14_Witness ==
    \E q, r \in Requests :
        /\ q # r /\ asset[q] = asset[r]
        /\ ~obs[q].hit /\ ~obs[r].hit
        /\ pc[q] = "batch" /\ pc[r] = "batch"
        /\ obs[q].procs > 0 /\ obs[r].procs > 0
        /\ obs[q].wrote = obs[r].wrote

\* C15: the step that answers a request with 500 leaves the cache as it was:
\* it adds no entry and replaces none.
C15_FailureKeepsCache ==
    [][\A r \in Requests : AbortStep(r) => cache' = cache /\ stores' = stores]_vars

\* The step in which request r arrives and finds its AssetId in the cache
HitStep(r) == pc[r] = "new" /\ pc'[r] # "new" /\ asset'[r] \in cache.keys

\* C16: a request that finds its AssetId in the cache is answered in the step
\* of its arrival with the cached entry; that step makes no remote call,
\* starts no process, leaves the scratch directory and its files alone and
\* does not change the cache.
C16_HitFromCacheOnly ==
    [][\A r \in Requests :
           HitStep(r) =>
               /\ resp'[r] = Ok(TRUE, cache.val[asset'[r]])
               /\ pc'[r] = "done"
               /\ cache' = cache /\ stores' = stores
               /\ files' = files /\ tempDir' = tempDir
               /\ run' = run
               /\ obs'[r].fetches = 0 /\ obs'[r].procs = 0
               /\ obs'[r].started = {} /\ obs'[r].wrote = ""]_vars

\* A request was answered from the cache while the scratch directory held
\* the file of another request.
C16_Witness ==
    \E r \in Requests :
        /\ obs[r].hit /\ resp[r].cached
        /\ resp[r].data = cache.val[asset[r]]
        /\ files # {}

\* C17: under fairness, every request that has arrived is eventually
\* answered (with 200 or 500).
C17_EveryRequestAnswered ==
    \A r \in Requests : (pc[r] # "new") ~> (resp[r].status # 0)

\* The requests in their analysis step (probe or windows)
Analyzing == {r \in Requests : pc[r] \in {"probe", "batch"}}

\* The per-window processes of request r that were started and have not ended
WindowProcs(r) == IF pc[r] = "batch" THEN obs[r].procs ELSE 0

RECURSIVE SumWindowProcs(_)
SumWindowProcs(rs) ==
    IF rs = {} THEN 0
    ELSE LET r == CHOOSE q \in rs : TRUE
         IN  WindowProcs(r) + SumWindowProcs(rs \ {r})

\* C18: the per-window processes in flight across the server number at most
\* 10 times the requests in their analysis step.
C18_TenPerAnalyzingRequest ==
    SumWindowProcs(Requests) <= BatchSize * Cardinality(Analyzing)

\* Two requests are analyzed at once and more than 10 per-window processes
\* are in flight: the batch width bounds a request, not the server.
C18_Witness ==
    /\ Cardinality(Analyzing) = 2
    /\ SumWindowProcs(Requests) = BatchSize + 2

\* The five values of a sample
SampleValues(s) == {s.amplitude, s.bass, s.mid, s.high, s.peak}

\* C19: for every output whose RMS and Peak readings are numbers (or
\* absent), the five values of the sample lie in [0, 1] and bass, mid and
\* high do not exceed the amplitude.
C19_SampleInUnitRange ==
    \A r \in Returned :
        \A k \in 1 .. Len(obs[r].log) :
            LET out == obs[r].log[k].out
                s == obs[r].computed.data[k]
            IN  (~out.fail /\ ~ReadDb(out.rms).nan /\ ~ReadDb(out.peak).nan) =>
                    /\ \A x \in SampleValues(s) : ~x.nan /\ 0 <= x.v /\ x.v <= 10000
                    /\ s.bass.v <= s.amplitude.v
                    /\ s.mid.v <= s.amplitude.v
                    /\ s.high.v <= s.amplitude.v

====
